---- MODULE Spec2Model ----
(***************************************************************************)
(* Model of src/assets/js/c9d3b4a1.2a47c75d.js (a minified webpack chunk). *)
(*                                                                         *)
(* Module 11151 is the MDX component context:                              *)
(*   const a = {}, r = createContext(a)                                    *)
(*   function c(e)  -- useMDXComponents, exported as `a`                   *)
(*   function o(e)  -- MDXProvider, exported as `Z`                        *)
(* Module 16956 is the page:                                               *)
(*   function u(e)  -- the page content renderer                           *)
(*   function d(e)  -- MDXContent, the default export                      *)
(*                                                                         *)
(* JavaScript objects have identity, so the model keeps a heap: a sequence *)
(* of mappings, an object reference being an index into it.  The chain of  *)
(* mounted providers above a consumer is `tree` (outermost first).  Every  *)
(* action is the first render of a component instance, where useMemo       *)
(* always runs its factory.                                                *)
(***************************************************************************)
EXTENDS Naturals, Sequences, FiniteSets

VARIABLES heap, tree, out

vars == <<heap, tree, out>>

\* ------------------------------------------------------------- bounds
\* Longest provider chain of the chain specification, and of the
\* specification that also renders consumers below the chain.
MaxChain == 3
MaxDepth == 1

\* ------------------------------------------------------------- values
\* Keys a caller's component mapping may define, and the values it may give
\* each: two renderers for the tag p; a layout component or JavaScript's
\* undefined (the only falsy value here) for wrapper.
Keys == {"wrapper", "p"}

ValsOf(k) == IF k = "wrapper" THEN {"Layout", "undefined"} ELSE {"P1", "P2"}

Vals == UNION {ValsOf(k) : k \in Keys}

Mappings ==
  UNION {{m \in [S -> Vals] : \A k \in S : m[k] \in ValsOf(k)} : S \in SUBSET Keys}

EmptyMapping == [k \in {} |-> "undefined"]

Truthy(v) == v # "undefined"

\* {...t, ...e}: the keys of both, e's value where e has the key.
Spread(t, e) ==
  [k \in (DOMAIN t) \cup (DOMAIN e) |-> IF k \in DOMAIN e THEN e[k] ELSE t[k]]

\* Mutant: the default context is pre-populated instead of empty.
a_prepopulated == [k \in {"p"} |-> "P1"]

\* const a = {} : the module-scoped default, the first object of the heap.
a_default == EmptyMapping
a_ref == 1

\* ------------------------------------------------- the caller's inputs
\* A `components` value: undefined, an object (a heap reference) or a
\* function (named; CallFn gives what it returns).
UndefinedArg == [type |-> "undefined", ref |-> 0, fn |-> ""]
ObjectArg(ref) == [type |-> "object", ref |-> ref, fn |-> ""]
FunctionArg(f) == [type |-> "function", ref |-> 0, fn |-> f]

FnNames == {"fnConst", "fnExtend", "fnToggle"}

\* The functions a caller passes as `components`:
\*   fnConst  = () => ({p: "P1"})
\*   fnExtend = ctx => ({...ctx, p: "P2"})
\*   fnToggle = ctx => ("p" in ctx ? {} : {p: "P1"})
CallFn(f, ctx) ==
  CASE f = "fnConst"  -> [k \in {"p"} |-> "P1"]
    [] f = "fnExtend" -> Spread(ctx, [k \in {"p"} |-> "P2"])
    [] f = "fnToggle" -> IF "p" \in DOMAIN ctx THEN EmptyMapping
                         ELSE [k \in {"p"} |-> "P1"]

\* What the caller passes: nothing, a mapping it has just built, or a function.
Inputs ==
  {[type |-> "undefined", m |-> EmptyMapping, fn |-> ""]}
  \cup {[type |-> "object", m |-> M, fn |-> ""] : M \in Mappings}
  \cup {[type |-> "function", m |-> EmptyMapping, fn |-> f] : f \in FnNames}

\* The caller builds its `components` object (if any) on the heap.
NewArg(h, in) ==
  IF in.type = "object"
  THEN [heap |-> Append(h, in.m), arg |-> ObjectArg(Len(h) + 1)]
  ELSE [heap |-> h,
        arg |-> IF in.type = "function" THEN FunctionArg(in.fn) ELSE UndefinedArg]

\* The own enumerable properties that `...e` copies: none for undefined.
Props(h, e) == IF e.type = "object" THEN h[e.ref] ELSE EmptyMapping

\* ------------------------------------------------------- module 11151
\* useContext(r): the value of the nearest provider above, or createContext's
\* default `a` when there is none.
useContext(tr) == IF tr = <<>> THEN a_ref ELSE tr[Len(tr)].value

\* Mutant: {...e, ...t}, the inherited value wins.
c_ContextWins(h, tr, e) ==
  LET t == useContext(tr)
      v == IF e.type = "function" THEN CallFn(e.fn, h[t])
           ELSE Spread(Props(h, e), h[t])
  IN  [heap |-> Append(h, v), ref |-> Len(h) + 1]

\* Mutant: {...t, ...e(t)}, a function's result is laid over the context.
c_FunctionMerged(h, tr, e) ==
  LET t == useContext(tr)
      v == IF e.type = "function" THEN Spread(h[t], CallFn(e.fn, h[t]))
           ELSE Spread(h[t], Props(h, e))
  IN  [heap |-> Append(h, v), ref |-> Len(h) + 1]

\* Mutant: e ? {...t, ...e} : a, no override gives the default back.
c_NoOverrideDefault(h, tr, e) ==
  LET t == useContext(tr)
      v == IF e.type = "function" THEN CallFn(e.fn, h[t])
           ELSE IF e.type = "undefined" THEN h[a_ref]
           ELSE Spread(h[t], Props(h, e))
  IN  [heap |-> Append(h, v), ref |-> Len(h) + 1]

\* Mutant: a key the context already has is dropped instead of overwritten.
c_DropsShared(h, tr, e) ==
  LET t == useContext(tr)
      m == Spread(h[t], Props(h, e))
      v == IF e.type = "function" THEN CallFn(e.fn, h[t])
           ELSE [k \in ((DOMAIN h[t]) \cup (DOMAIN Props(h, e)))
                          \ ((DOMAIN h[t]) \cap (DOMAIN Props(h, e))) |-> m[k]]
  IN  [heap |-> Append(h, v), ref |-> Len(h) + 1]

\* Mutant: Object.assign(t, e), the merge is written into the context object.
c_InPlace(h, tr, e) ==
  LET t == useContext(tr)
      v == IF e.type = "function" THEN CallFn(e.fn, h[t])
           ELSE Spread(h[t], Props(h, e))
  IN  [heap |-> [h EXCEPT ![t] = v], ref |-> t]

\* function c(e): "function" == typeof e ? e(t) : {...t, ...e}
useMDXComponents_c(h, tr, e) ==
  LET t == useContext(tr)
      v == IF e.type = "function" THEN CallFn(e.fn, h[t])
           ELSE Spread(h[t], Props(h, e))
  IN  [heap |-> Append(h, v), ref |-> Len(h) + 1]

\* Mutant: the disableParentContext flag is not looked at.
o_FlagIgnored(h, tr, e) == useMDXComponents_c(h, tr, e.components)

\* Mutant: the provider never merges, it installs the override alone.
o_NeverMerges(h, tr, e) ==
  IF e.components.type = "function"
  THEN [heap |-> Append(h, CallFn(e.components.fn, h[a_ref])), ref |-> Len(h) + 1]
  ELSE IF e.components.type = "object"
       THEN [heap |-> h, ref |-> e.components.ref]
       ELSE [heap |-> h, ref |-> a_ref]

\* function o(e): the value the provider installs for its descendants.
MDXProvider_o(h, tr, e) ==
  IF e.disableParentContext
  THEN IF e.components.type = "function"
       THEN [heap |-> Append(h, CallFn(e.components.fn, h[a_ref])),
             ref |-> Len(h) + 1]
       ELSE IF e.components.type = "object"
            THEN [heap |-> h, ref |-> e.components.ref]
            ELSE [heap |-> h, ref |-> a_ref]
  ELSE useMDXComponents_c(h, tr, e.components)

\* ------------------------------------------------------- module 16956
TagNames == {"code", "h3", "li", "p", "pre", "strong", "ul"}

\* {code: "code", h3: "h3", ...}: every tag defaults to its own name.
Defaults == [k \in TagNames |-> k]

\* Mutant: {...defaults, ...e.components, ...useMDXComponents()}.
u_ContextOverProps(h, tr, e) ==
  LET hk == useMDXComponents_c(h, tr, UndefinedArg)
  IN  [heap |-> hk.heap,
       t |-> Spread(Spread(Defaults, Props(hk.heap, e.components)), hk.heap[hk.ref])]

\* function u(e): t = {...defaults, ...useMDXComponents(), ...e.components}
CreateMdxContent_u(h, tr, e) ==
  LET hk == useMDXComponents_c(h, tr, UndefinedArg)
  IN  [heap |-> hk.heap,
       t |-> Spread(Spread(Defaults, hk.heap[hk.ref]), Props(hk.heap, e.components))]

\* Mutant: the wrapper is taken from the context alone.
d_WrapperFromContext(h, tr, e) ==
  LET hk == useMDXComponents_c(h, tr, UndefinedArg)
      merged == hk.heap[hk.ref]
      t == IF "wrapper" \in DOMAIN merged THEN merged["wrapper"] ELSE "undefined"
      content == CreateMdxContent_u(hk.heap, tr, e)
  IN  [heap |-> content.heap,
       wrapped |-> Truthy(t),
       wrapper |-> t,
       content |-> <<[props |-> e, t |-> content.t]>>]

\* function d(e): {wrapper: t} = {...useMDXComponents(), ...e.components};
\* t ? jsx(t, {...e, children: jsx(u, {...e})}) : u(e)
MDXContent_d(h, tr, e) ==
  LET hk == useMDXComponents_c(h, tr, UndefinedArg)
      merged == Spread(hk.heap[hk.ref], Props(hk.heap, e.components))
      t == IF "wrapper" \in DOMAIN merged THEN merged["wrapper"] ELSE "undefined"
      content == CreateMdxContent_u(hk.heap, tr, e)
  IN  [heap |-> content.heap,
       wrapped |-> Truthy(t),
       wrapper |-> t,
       content |-> <<[props |-> e, t |-> content.t]>>]

\* ------------------------------------------------------------- state
\* Objects no mounted provider refers to (those of the last consumer render)
\* are unreachable and dropped before the next render starts.
MaxOf(S) == CHOOSE x \in S : \A y \in S : y <= x

Retain(h, tr) ==
  SubSeq(h, 1, MaxOf({a_ref} \cup {tr[i].components.ref : i \in 1..Len(tr)}
                             \cup {tr[i].value : i \in 1..Len(tr)}))

NoOut ==
  [op |-> "none", before |-> <<>>, arg |-> UndefinedArg, result |-> 0,
   wrapped |-> FALSE, wrapper |-> "undefined", content |-> <<>>]

Init ==
  /\ heap = <<a_default>>
  /\ tree = <<>>
  /\ out = NoOut

\* A provider is rendered below the current chain.
Mount(limit) ==
  /\ Len(tree) < limit
  /\ \E in \in Inputs, dis \in BOOLEAN :
       LET h0 == Retain(heap, tree)
           na == NewArg(h0, in)
           e  == [components |-> na.arg, disableParentContext |-> dis]
           r  == MDXProvider_o(na.heap, tree, e)
       IN  /\ heap' = r.heap
           /\ tree' = Append(tree, [components |-> na.arg,
                                    disableParentContext |-> dis,
                                    value |-> r.ref])
           /\ out' = [NoOut EXCEPT !.op = "provider", !.before = na.heap,
                                   !.arg = na.arg, !.result = r.ref]

\* A consumer below the chain calls the hook.
Hook ==
  \E in \in Inputs :
    LET h0 == Retain(heap, tree)
        na == NewArg(h0, in)
        r  == useMDXComponents_c(na.heap, tree, na.arg)
    IN  /\ heap' = r.heap
        /\ tree' = tree
        /\ out' = [NoOut EXCEPT !.op = "hook", !.before = na.heap,
                                !.arg = na.arg, !.result = r.ref]

\* The page is rendered below the chain; props.components is absent or a mapping.
Page ==
  \E in \in {i \in Inputs : i.type # "function"} :
    LET h0 == Retain(heap, tree)
        na == NewArg(h0, in)
        r  == MDXContent_d(na.heap, tree, [components |-> na.arg])
    IN  /\ heap' = r.heap
        /\ tree' = tree
        /\ out' = [NoOut EXCEPT !.op = "page", !.before = na.heap,
                                !.arg = na.arg, !.wrapped = r.wrapped,
                                !.wrapper = r.wrapper, !.content = r.content]

Next == Mount(MaxDepth) \/ Hook \/ Page

Spec == Init /\ [][Next]_vars

NextChain == Mount(MaxChain)

SpecChain == Init /\ [][NextChain]_vars

\* ------------------------------------------------------------ claims
\* R is B with O's keys applied on top, stated key by key.
IsOverlay(R, B, O) ==
  /\ DOMAIN R = (DOMAIN B) \cup (DOMAIN O)
  /\ \A k \in DOMAIN O : R[k] = O[k]
  /\ \A k \in (DOMAIN B) \ (DOMAIN O) : R[k] = B[k]

SameMapping(R, M) == DOMAIN R = DOMAIN M /\ \A k \in DOMAIN M : R[k] = M[k]

\* The inherited context B and the override O of the last consumer render, as
\* they were when it started, and the mapping R it returned.
LastB == out.before[useContext(tree)]
LastO == Props(out.before, out.arg)
LastR == heap[out.result]

\* C1: with an override in plain-mapping form the hook returns a mapping whose
\* keys are those of B and of O, with O's value for every key of O and B's
\* value for every other key of B.
C1_MappingOverlay ==
  (out.op = "hook" /\ out.arg.type = "object") => IsOverlay(LastR, LastB, LastO)

C1_Witness ==
  /\ out.op = "hook" /\ out.arg.type = "object"
  /\ "p" \in DOMAIN LastB /\ "p" \in DOMAIN LastO /\ LastB["p"] # LastO["p"]
  /\ "wrapper" \in DOMAIN LastB /\ "wrapper" \notin DOMAIN LastO
  /\ LastR["p"] = LastO["p"] /\ LastR["wrapper"] = LastB["wrapper"]

\* C2 as stated: with an override in function form f the hook returns B with
\* the keys of f(B) applied on top, so every key of B is kept.
C2_FunctionOverlaysB ==
  (out.op = "hook" /\ out.arg.type = "function")
    => IsOverlay(LastR, LastB, CallFn(out.arg.fn, LastB))

\* C2 amended: with an override in function form f the hook returns f(B) as
\* it is; a key of B that f(B) does not have is not in the result.
C2_FunctionResultAsIs ==
  (out.op = "hook" /\ out.arg.type = "function")
    => /\ SameMapping(LastR, CallFn(out.arg.fn, LastB))
       /\ \A k \in (DOMAIN LastB) \ DOMAIN CallFn(out.arg.fn, LastB) :
            k \notin DOMAIN LastR

C2_Witness ==
  /\ out.op = "hook" /\ out.arg.type = "function" /\ out.arg.fn = "fnConst"
  /\ "wrapper" \in DOMAIN LastB
  /\ DOMAIN LastR = {"p"}

\* C4: with no override the hook returns a mapping equal to B.
C4_NoOverrideIdentity ==
  (out.op = "hook" /\ out.arg.type = "undefined") => SameMapping(LastR, LastB)

C4_Witness ==
  /\ out.op = "hook" /\ out.arg.type = "undefined"
  /\ DOMAIN LastB = Keys /\ DOMAIN LastR = Keys

\* C6: with no provider above, the inherited context is the module's default
\* empty mapping: the hook returns an empty mapping for no override and exactly
\* O for a mapping override, and always returns a mapping.
C6_NoProviderDefault ==
  (out.op = "hook" /\ tree = <<>>)
    => /\ useContext(tree) = a_ref
       /\ DOMAIN out.before[a_ref] = {}
       /\ out.result \in 1..Len(heap)
       /\ DOMAIN LastR \subseteq Keys
       /\ (out.arg.type = "undefined" => DOMAIN LastR = {})
       /\ (out.arg.type = "object" => SameMapping(LastR, LastO))

C6_Witness ==
  /\ out.op = "hook" /\ tree = <<>> /\ out.arg.type = "object"
  /\ DOMAIN LastO = Keys /\ DOMAIN LastR = Keys

\* The chain of mounted providers: the override of provider i, the context it
\* inherited and the context it installed.
OverrideOf(i) == Props(heap, tree[i].components)
ParentOf(i) == heap[IF i = 1 THEN a_ref ELSE tree[i - 1].value]
ValueOf(i) == heap[tree[i].value]

SameOverride(i, j) ==
  /\ tree[i].components.type = tree[j].components.type
  /\ tree[i].components.fn = tree[j].components.fn
  /\ SameMapping(OverrideOf(i), OverrideOf(j))

\* C3: a provider given disableParentContext installs O itself for a mapping
\* override O and f(empty mapping) for a function override f, and two such
\* providers with the same override install the same value whatever they
\* inherit.
C3_DisabledIgnoresParent ==
  \A i \in 1..Len(tree) :
    tree[i].disableParentContext
      => /\ tree[i].components.type = "object"
              => SameMapping(ValueOf(i), OverrideOf(i))
         /\ tree[i].components.type = "function"
              => SameMapping(ValueOf(i), CallFn(tree[i].components.fn, EmptyMapping))
         /\ \A j \in 1..Len(tree) :
              (tree[j].disableParentContext /\ SameOverride(i, j))
                => SameMapping(ValueOf(i), ValueOf(j))

C3_Witness ==
  \E i, j \in 1..Len(tree) :
    /\ tree[i].disableParentContext /\ tree[j].disableParentContext
    /\ SameOverride(i, j)
    /\ tree[i].components.type = "object"
    /\ DOMAIN OverrideOf(i) = {"p"}
    /\ DOMAIN ParentOf(i) = {} /\ DOMAIN ParentOf(j) = Keys
    /\ DOMAIN ValueOf(j) = {"p"}

\* C5 as stated: a provider that merges the override its parent has just
\* merged installs the same context as its parent, whatever the form of the
\* override.
C5_IdempotentAnyOverride ==
  \A i \in 1..Len(tree) :
    (/\ i < Len(tree)
     /\ ~tree[i].disableParentContext /\ ~tree[i + 1].disableParentContext
     /\ SameOverride(i, i + 1))
      => SameMapping(ValueOf(i + 1), ValueOf(i))

\* C5 amended: merging the same override a second time changes nothing when
\* the override is in mapping form or absent.
C5_IdempotentMappingOverride ==
  \A i \in 1..Len(tree) :
    (/\ i < Len(tree)
     /\ ~tree[i].disableParentContext /\ ~tree[i + 1].disableParentContext
     /\ tree[i].components.type # "function"
     /\ SameOverride(i, i + 1))
      => SameMapping(ValueOf(i + 1), ValueOf(i))

C5_Witness ==
  \E i \in 1..Len(tree) :
    /\ i < Len(tree)
    /\ ~tree[i].disableParentContext /\ ~tree[i + 1].disableParentContext
    /\ tree[i].components.type = "object"
    /\ SameOverride(i, i + 1)
    /\ "p" \in DOMAIN ParentOf(i) /\ "p" \in DOMAIN OverrideOf(i)
    /\ ParentOf(i)["p"] # OverrideOf(i)["p"]
    /\ ValueOf(i + 1)["p"] = OverrideOf(i)["p"]

\* The provider the overlay restarts from: the innermost one with
\* disableParentContext, the outermost one if none has it.
RestartPoint ==
  MaxOf({1} \cup {i \in 1..Len(tree) : tree[i].disableParentContext})

\* C7: below a chain of providers with mapping overrides the context has, for
\* every key, the value of the innermost provider at or below the restart
\* point that defines the key, and no key that only providers above the
\* restart point define.
C7_ChainOverlay ==
  (/\ tree # <<>>
   /\ \A i \in RestartPoint..Len(tree) : tree[i].components.type # "function")
    => LET R == heap[useContext(tree)]
           Defining(k) == {i \in RestartPoint..Len(tree) : k \in DOMAIN OverrideOf(i)}
       IN  /\ DOMAIN R = {k \in Keys : Defining(k) # {}}
           /\ \A k \in DOMAIN R : R[k] = OverrideOf(MaxOf(Defining(k)))[k]

C7_Witness ==
  /\ Len(tree) = 3
  /\ \A i \in 1..3 : tree[i].components.type = "object"
  /\ ~tree[1].disableParentContext /\ tree[2].disableParentContext
  /\ ~tree[3].disableParentContext
  /\ DOMAIN OverrideOf(1) = {"wrapper"}
  /\ DOMAIN OverrideOf(2) = {"p"} /\ DOMAIN OverrideOf(3) = {"p"}
  /\ OverrideOf(2)["p"] # OverrideOf(3)["p"]
  /\ DOMAIN heap[useContext(tree)] = {"p"}
  /\ heap[useContext(tree)]["p"] = OverrideOf(3)["p"]

\* C8: the page content renderer binds each of the seven tag names to the
\* value props.components gives it, else to the one the context gives it, else
\* to the tag's own name.
C8_TagBinding ==
  out.op = "page"
    => \A n \in 1..Len(out.content) : \A tag \in TagNames :
         /\ tag \in DOMAIN out.content[n].t
         /\ out.content[n].t[tag] =
              IF tag \in DOMAIN LastO THEN LastO[tag]
              ELSE IF tag \in DOMAIN LastB THEN LastB[tag]
              ELSE tag

C8_Witness ==
  /\ out.op = "page" /\ Len(out.content) = 1
  /\ "p" \in DOMAIN LastO /\ "p" \in DOMAIN LastB /\ LastO["p"] # LastB["p"]
  /\ out.content[1].t["p"] = LastO["p"]
  /\ out.content[1].t["h3"] = "h3"

\* The wrapper key of the context overlaid with props.components.
LastWrapper ==
  IF "wrapper" \in DOMAIN LastO THEN LastO["wrapper"]
  ELSE IF "wrapper" \in DOMAIN LastB THEN LastB["wrapper"]
  ELSE "undefined"

\* C9: the page is rendered inside a wrapper exactly when the context overlaid
\* with props.components has a truthy wrapper, which is then the wrapper used;
\* either way the page content is rendered once with the page's props.
C9_WrapperChoice ==
  out.op = "page"
    => /\ out.wrapped <=> Truthy(LastWrapper)
       /\ out.wrapped => out.wrapper = LastWrapper
       /\ Len(out.content) = 1
       /\ out.content[1].props = [components |-> out.arg]

C9_Witness ==
  /\ out.op = "page"
  /\ "wrapper" \in DOMAIN LastO /\ "wrapper" \in DOMAIN LastB
  /\ Truthy(LastO["wrapper"]) /\ ~Truthy(LastB["wrapper"])
  /\ out.wrapped /\ out.wrapper = LastO["wrapper"]

\* C10: a hook call or a provider render with a mapping override leaves every
\* object that existed before it as it was, the default mapping empty, and
\* returns a merged result that is a new object.
C10_InputsUntouched ==
  (out.op \in {"hook", "provider"} /\ out.arg.type # "function")
    => /\ Len(heap) >= Len(out.before)
       /\ \A i \in 1..Len(out.before) : SameMapping(heap[i], out.before[i])
       /\ DOMAIN heap[a_ref] = {}
       /\ (out.op = "hook" \/ ~tree[Len(tree)].disableParentContext)
            => out.result > Len(out.before)

C10_Witness ==
  /\ out.op = "hook" /\ out.arg.type = "object" /\ tree # <<>>
  /\ DOMAIN LastB = {"p"} /\ DOMAIN LastO = Keys /\ LastO["p"] # LastB["p"]
  /\ heap[useContext(tree)]["p"] = LastB["p"]
  /\ out.result = Len(heap) /\ out.result > Len(out.before)

====
